---- MODULE Spec2Model ----
(***************************************************************************)
(* The CSS selector builder of src/src/06-objects-tasks.js: class Selector *)
(* (lines 114-226) and the facade cssSelectorBuilder (lines 228-256).      *)
(*                                                                         *)
(* JavaScript objects live in a heap (object identity is the index), the   *)
(* arrays classValues, attrValues and pseudoClassValues are objects of     *)
(* their own (array identity is the index in arrays), so that aliasing and *)
(* in-place mutation are visible to the checks.                            *)
(***************************************************************************)
EXTENDS Integers, Sequences, FiniteSets

VARIABLES
    heap,       \* every Selector object ever constructed, by address
    arrays,     \* every array ever constructed, by address
    refs,       \* addresses of the Selectors a caller holds (returned to it)
    chain,      \* per address: the category calls that built the fragment
    last,       \* the call made by the last step and its outcome
    owner,      \* SpecChains: per address, the builder chain that holds it
    alone       \* SpecChains: per chain, the store of the chain run alone

vars == <<heap, arrays, refs, chain, last, owner, alone>>

----------------------------------------------------------------------------
(* Bounds of the model *)

\* the most Selector objects the heap holds (temporaries included)
MaxHeap == 4

\* the text values passed to the category calls
Values == {"", "a"}

\* the most calls of one chained expression
MaxChain == 7

\* the most Selector objects of the store two chains share
MaxShared == 6

\* the text values passed by the two chains
ChainsValues == {"a"}

\* the categories the two chains call: a single one of the lowest rank, a
\* repeatable one and the single one of the highest rank
ChainsCategories == {"element", "class", "pseudoElement"}

\* the text values passed to the category calls where combine is called too
TreeValues == {"a"}

\* the combinator texts of the task (line 70)
Combinators == {" ", "+", "~", ">"}

\* the combinator texts passed to combine: three of the task and the empty text
Symbols == {" ", ">", "~", ""}

----------------------------------------------------------------------------
(* JavaScript values *)

Undefined == [type |-> "undefined", str |-> "", num |-> 0]

String(s) == [type |-> "string", str |-> s, num |-> 0]

Number(n) == [type |-> "number", str |-> "", num |-> n]

\* a reference that is undefined (an omitted argument, a missing property)
NoRef == 0

\* ToBoolean of a string, a number or undefined
ToBoolean(v) ==
    \/ v.type = "string" /\ v.str # ""
    \/ v.type = "number" /\ v.num # 0

\* a < b on numbers; undefined converts to NaN and every comparison is false
LessThan(a, b) == a.type = "number" /\ b.type = "number" /\ a.num < b.num

\* the text of a value in a template literal
ToString(v) == IF v.type = "undefined" THEN "undefined" ELSE v.str

----------------------------------------------------------------------------
(* Errors: an Error is modelled by its message, "" is normal completion *)

NoError == ""

OrderMessage ==
    "Selector parts should be arranged in the following order: element, id, class, attribute, pseudo-class, pseudo-element"

SingleMessage ==
    "Element, id and pseudo-element should not occur more then one time inside the selector"

\* spreading undefined: the engine's TypeError (not iterable)
TypeErrorMessage == "TypeError: undefined is not iterable"

Throw(st, e) == [st |-> st, ret |-> NoRef, error |-> e]

Return(st, r) == [st |-> st, ret |-> r, error |-> NoError]

\* statement sequencing in a method body (as in lines 150-157): an exception
\* thrown by r ends the body, otherwise the body goes on as K with r's store
\* and value
Bind(r, K(_)) == IF r.error # NoError THEN Throw(r.st, r.error) ELSE K(r)

\* object[field] = value
Assign(st, object, field, value) ==
    Return([st EXCEPT !.heap[object][field] = value], NoRef)

\* array.push(value)
Push(st, array, value) ==
    Return([st EXCEPT !.arrays[array] = Append(@, value)], NoRef)

----------------------------------------------------------------------------
(* class Selector *)

\* constructor(selector1, combinator, selector2), lines 115-131
constructor(st, selector1, combinator, selector2) ==
    IF selector1 # NoRef /\ ToBoolean(combinator) /\ selector2 # NoRef
    THEN Return([st EXCEPT !.heap = Append(@,
                    [selector1 |-> selector1,
                     combinator |-> combinator,
                     selector2 |-> selector2,
                     isCombined |-> TRUE,
                     elementValue |-> Undefined,
                     idValue |-> Undefined,
                     classValues |-> NoRef,
                     attrValues |-> NoRef,
                     pseudoClassValues |-> NoRef,
                     pseudoElementValue |-> Undefined,
                     order |-> Undefined])],
                Len(st.heap) + 1)
    ELSE Return([heap |-> Append(st.heap,
                    [selector1 |-> NoRef,
                     combinator |-> Undefined,
                     selector2 |-> NoRef,
                     isCombined |-> FALSE,
                     elementValue |-> String(""),
                     idValue |-> String(""),
                     classValues |-> Len(st.arrays) + 1,
                     attrValues |-> Len(st.arrays) + 2,
                     pseudoClassValues |-> Len(st.arrays) + 3,
                     pseudoElementValue |-> String(""),
                     order |-> Number(0)]),
                 arrays |-> st.arrays \o << <<>>, <<>>, <<>> >>],
                Len(st.heap) + 1)

\* ensureOrder that assigns the rank before it tests it
ensureOrderAssignFirst(st, this, orderValue) ==
    IF LessThan(Number(orderValue), st.heap[this].order)
    THEN Throw(Assign(st, this, "order", Number(orderValue)).st, OrderMessage)
    ELSE Assign(st, this, "order", Number(orderValue))

\* ensureOrder without the test: the rank is assigned whatever it is
ensureOrderUnchecked(st, this, orderValue) ==
    Assign(st, this, "order", Number(orderValue))

\* ensureOrder(orderValue), lines 133-140: the rank is assigned to this
ensureOrder(st, this, orderValue) ==
    IF LessThan(Number(orderValue), st.heap[this].order)
    THEN Throw(st, OrderMessage)
    ELSE Assign(st, this, "order", Number(orderValue))

\* ensureSingle(fieldName), lines 142-148: a truthiness test of the field
ensureSingle(st, this, fieldName) ==
    IF ToBoolean(st.heap[this][fieldName])
    THEN Throw(st, SingleMessage)
    ELSE Return(st, NoRef)

\* [...array]: a new array with the elements of array; undefined is not iterable
spread(st, array) ==
    IF array = NoRef
    THEN Throw(st, TypeErrorMessage)
    ELSE Return([st EXCEPT !.arrays = Append(@, st.arrays[array])],
                Len(st.arrays) + 1)

\* copy[field] = [...this[field]], lines 205-207
copyArray(st, this, copy, field) ==
    Bind(spread(st, st.heap[this][field]), LAMBDA a :
    Assign(a.st, copy, field, a.ret))

\* clone that copies the references of the three arrays, not the arrays
cloneSharing(st, this) ==
    Bind(constructor(st, NoRef, Undefined, NoRef), LAMBDA copy :
    Return([copy.st EXCEPT !.heap[copy.ret] = copy.st.heap[this]], copy.ret))

\* clone(), lines 201-211
clone(st, this) ==
    Bind(constructor(st, NoRef, Undefined, NoRef), LAMBDA copy :
    Bind(Assign(copy.st, copy.ret, "elementValue",
                copy.st.heap[this].elementValue), LAMBDA s1 :
    Bind(Assign(s1.st, copy.ret, "idValue", s1.st.heap[this].idValue), LAMBDA s2 :
    Bind(copyArray(s2.st, this, copy.ret, "classValues"), LAMBDA s3 :
    Bind(copyArray(s3.st, this, copy.ret, "attrValues"), LAMBDA s4 :
    Bind(copyArray(s4.st, this, copy.ret, "pseudoClassValues"), LAMBDA s5 :
    Bind(Assign(s5.st, copy.ret, "pseudoElementValue",
                s5.st.heap[this].pseudoElementValue), LAMBDA s6 :
    Bind(Assign(s6.st, copy.ret, "order", s6.st.heap[this].order), LAMBDA s7 :
    Return(s7.st, copy.ret)))))))))

\* element that tests the uniqueness before the order
elementSingleFirst(st, this, value) ==
    Bind(ensureSingle(st, this, "elementValue"), LAMBDA s :
    Bind(ensureOrder(s.st, this, 1), LAMBDA o :
    Bind(clone(o.st, this), LAMBDA next :
    Bind(Assign(next.st, next.ret, "elementValue", String(value)), LAMBDA e :
    Bind(Assign(e.st, next.ret, "order", Number(1)), LAMBDA n :
    Return(n.st, next.ret))))))

\* element(value), lines 150-157
element(st, this, value) ==
    Bind(ensureOrder(st, this, 1), LAMBDA o :
    Bind(ensureSingle(o.st, this, "elementValue"), LAMBDA s :
    Bind(clone(s.st, this), LAMBDA next :
    Bind(Assign(next.st, next.ret, "elementValue", String(value)), LAMBDA e :
    Bind(Assign(e.st, next.ret, "order", Number(1)), LAMBDA n :
    Return(n.st, next.ret))))))

\* id that gives the new fragment the rank of element
idRankOfElement(st, this, value) ==
    Bind(ensureOrder(st, this, 2), LAMBDA o :
    Bind(ensureSingle(o.st, this, "idValue"), LAMBDA s :
    Bind(clone(s.st, this), LAMBDA next :
    Bind(Assign(next.st, next.ret, "idValue", String("#" \o value)), LAMBDA e :
    Bind(Assign(e.st, next.ret, "order", Number(1)), LAMBDA n :
    Return(n.st, next.ret))))))

\* id(value), lines 159-166
id(st, this, value) ==
    Bind(ensureOrder(st, this, 2), LAMBDA o :
    Bind(ensureSingle(o.st, this, "idValue"), LAMBDA s :
    Bind(clone(s.st, this), LAMBDA next :
    Bind(Assign(next.st, next.ret, "idValue", String("#" \o value)), LAMBDA e :
    Bind(Assign(e.st, next.ret, "order", Number(2)), LAMBDA n :
    Return(n.st, next.ret))))))

\* class that puts the new class before the ones already there
classPrepending(st, this, value) ==
    Bind(ensureOrder(st, this, 3), LAMBDA o :
    Bind(clone(o.st, this), LAMBDA next :
    Bind(Return([next.st EXCEPT
                   !.arrays[next.st.heap[next.ret].classValues] =
                       <<"." \o value>> \o @], NoRef), LAMBDA e :
    Bind(Assign(e.st, next.ret, "order", Number(3)), LAMBDA n :
    Return(n.st, next.ret)))))

\* class(value), lines 168-174
class(st, this, value) ==
    Bind(ensureOrder(st, this, 3), LAMBDA o :
    Bind(clone(o.st, this), LAMBDA next :
    Bind(Push(next.st, next.st.heap[next.ret].classValues, "." \o value),
         LAMBDA e :
    Bind(Assign(e.st, next.ret, "order", Number(3)), LAMBDA n :
    Return(n.st, next.ret)))))

\* attr that pushes the new attribute onto the arrays of this, then clones
attrInPlace(st, this, value) ==
    Bind(ensureOrder(st, this, 4), LAMBDA o :
    Bind(Push(o.st, o.st.heap[this].attrValues, "[" \o value \o "]"),
         LAMBDA e :
    Bind(clone(e.st, this), LAMBDA next :
    Bind(Assign(next.st, next.ret, "order", Number(4)), LAMBDA n :
    Return(n.st, next.ret)))))

\* attr(value), lines 176-182
attr(st, this, value) ==
    Bind(ensureOrder(st, this, 4), LAMBDA o :
    Bind(clone(o.st, this), LAMBDA next :
    Bind(Push(next.st, next.st.heap[next.ret].attrValues,
              "[" \o value \o "]"), LAMBDA e :
    Bind(Assign(e.st, next.ret, "order", Number(4)), LAMBDA n :
    Return(n.st, next.ret)))))

\* pseudoClass(value), lines 184-190
pseudoClass(st, this, value) ==
    Bind(ensureOrder(st, this, 5), LAMBDA o :
    Bind(clone(o.st, this), LAMBDA next :
    Bind(Push(next.st, next.st.heap[next.ret].pseudoClassValues,
              ":" \o value), LAMBDA e :
    Bind(Assign(e.st, next.ret, "order", Number(5)), LAMBDA n :
    Return(n.st, next.ret)))))

\* pseudoElement(value), lines 192-199
pseudoElement(st, this, value) ==
    Bind(ensureOrder(st, this, 6), LAMBDA o :
    Bind(ensureSingle(o.st, this, "pseudoElementValue"), LAMBDA s :
    Bind(clone(s.st, this), LAMBDA next :
    Bind(Assign(next.st, next.ret, "pseudoElementValue",
                String("::" \o value)), LAMBDA e :
    Bind(Assign(e.st, next.ret, "order", Number(6)), LAMBDA n :
    Return(n.st, next.ret))))))

\* Array.prototype.join('') of an array's elements
RECURSIVE join(_)
join(elements) ==
    IF elements = <<>> THEN ""
    ELSE Head(elements) \o join(Tail(elements))

\* stringify that renders a combined node right side first
RECURSIVE stringifyMirrored(_, _)
stringifyMirrored(st, this) ==
    IF st.heap[this].isCombined
    THEN stringifyMirrored(st, st.heap[this].selector2)
             \o " " \o ToString(st.heap[this].combinator)
             \o " " \o stringifyMirrored(st, st.heap[this].selector1)
    ELSE ToString(st.heap[this].elementValue)
             \o ToString(st.heap[this].idValue)
             \o join(st.arrays[st.heap[this].classValues])
             \o join(st.arrays[st.heap[this].attrValues])
             \o join(st.arrays[st.heap[this].pseudoClassValues])
             \o ToString(st.heap[this].pseudoElementValue)

\* stringify(), lines 213-225
RECURSIVE stringify(_, _)
stringify(st, this) ==
    IF st.heap[this].isCombined
    THEN stringify(st, st.heap[this].selector1)
             \o " " \o ToString(st.heap[this].combinator)
             \o " " \o stringify(st, st.heap[this].selector2)
    ELSE ToString(st.heap[this].elementValue)
             \o ToString(st.heap[this].idValue)
             \o join(st.arrays[st.heap[this].classValues])
             \o join(st.arrays[st.heap[this].attrValues])
             \o join(st.arrays[st.heap[this].pseudoClassValues])
             \o ToString(st.heap[this].pseudoElementValue)

----------------------------------------------------------------------------
(* The categories and the dispatch of a method call by name *)

Categories ==
    {"element", "id", "class", "attr", "pseudoClass", "pseudoElement"}

\* the rank of a category: the argument its method gives to ensureOrder
Rank(name) ==
    CASE name = "element" -> 1
      [] name = "id" -> 2
      [] name = "class" -> 3
      [] name = "attr" -> 4
      [] name = "pseudoClass" -> 5
      [] name = "pseudoElement" -> 6

\* the categories whose method calls ensureSingle
Singles == {"element", "id", "pseudoElement"}

\* this[name](value) on a Selector
Invoke(st, this, name, value) ==
    CASE name = "element" -> element(st, this, value)
      [] name = "id" -> id(st, this, value)
      [] name = "class" -> class(st, this, value)
      [] name = "attr" -> attr(st, this, value)
      [] name = "pseudoClass" -> pseudoClass(st, this, value)
      [] name = "pseudoElement" -> pseudoElement(st, this, value)

----------------------------------------------------------------------------
(* const cssSelectorBuilder, lines 228-256 *)

\* a facade that keeps one Selector and starts every chain on it
builderCallShared(st, name, value) ==
    IF st.heap = <<>>
    THEN Bind(constructor(st, NoRef, Undefined, NoRef), LAMBDA fresh :
         Invoke(fresh.st, fresh.ret, name, value))
    ELSE Invoke(st, 1, name, value)

\* cssSelectorBuilder.<name>(value): new Selector().<name>(value)
builderCall(st, name, value) ==
    Bind(constructor(st, NoRef, Undefined, NoRef), LAMBDA fresh :
    Invoke(fresh.st, fresh.ret, name, value))

\* cssSelectorBuilder.combine(selector1, combinator, selector2)
combine(st, selector1, combinator, selector2) ==
    constructor(st, selector1, String(combinator), selector2)

----------------------------------------------------------------------------
(* The program as a state machine: a caller holding references makes one   *)
(* call per step.                                                          *)

Store == [heap |-> heap, arrays |-> arrays]

NoCall == [error |-> NoError, ret |-> NoRef]

Init ==
    /\ heap = <<>>
    /\ arrays = <<>>
    /\ refs = {}
    /\ chain = <<>>
    /\ last = NoCall
    /\ owner = <<>>
    /\ alone = <<>>

\* the step of a call that ended as r: the store it left, the reference it
\* returned (held from now on, with the calls that built it) and its outcome
Step(r, history) ==
    /\ heap' = r.st.heap
    /\ arrays' = r.st.arrays
    /\ refs' = IF r.error = NoError THEN refs \cup {r.ret} ELSE refs
    /\ chain' = IF r.error = NoError
                THEN [x \in refs \cup {r.ret} |->
                        IF x = r.ret THEN history ELSE chain[x]]
                ELSE chain
    /\ last' = [error |-> r.error, ret |-> r.ret]

\* cssSelectorBuilder.<name>(value)
BuilderCall(name, value) ==
    /\ Step(builderCall(Store, name, value), << <<name, value>> >>)
    /\ UNCHANGED <<owner, alone>>

\* this.<name>(value) on a Selector the caller holds
SelectorCall(this, name, value) ==
    /\ this \in refs
    /\ Step(Invoke(Store, this, name, value),
            Append(chain[this], <<name, value>>))
    /\ UNCHANGED <<owner, alone>>

\* cssSelectorBuilder.combine(selector1, combinator, selector2)
Combine(selector1, combinator, selector2) ==
    /\ selector1 \in refs
    /\ selector2 \in refs
    /\ Step(combine(Store, selector1, combinator, selector2),
            << <<"combine", combinator>> >>)
    /\ UNCHANGED <<owner, alone>>

\* The fragment accumulator: the category entry points of the facade and the
\* category methods, on every Selector held, with every text of Values.
Next ==
    \/ \E name \in Categories, value \in Values :
           BuilderCall(name, value) /\ Len(heap') <= MaxHeap
    \/ \E this \in refs, name \in Categories, value \in Values :
           SelectorCall(this, name, value) /\ Len(heap') <= MaxHeap

Spec == Init /\ [][Next]_vars

\* The whole facade, combine included, with the texts of TreeValues.
NextTree ==
    \/ \E name \in Categories, value \in TreeValues :
           BuilderCall(name, value) /\ Len(heap') <= MaxHeap
    \/ \E this \in refs, name \in Categories, value \in TreeValues :
           SelectorCall(this, name, value) /\ Len(heap') <= MaxHeap
    \/ \E selector1 \in refs, combinator \in Symbols, selector2 \in refs :
           Combine(selector1, combinator, selector2) /\ Len(heap') <= MaxHeap

SpecTree == Init /\ [][NextTree]_vars

\* One chained expression, cssSelectorBuilder.c1(v1).c2(v2)...: every call is
\* made on the fragment the call before it returned, and an exception ends it.
NextChain ==
    \/ \E name \in Categories, value \in Values :
           heap = <<>> /\ BuilderCall(name, value)
    \/ \E name \in Categories, value \in Values :
           /\ last.ret # NoRef
           /\ SelectorCall(last.ret, name, value)
           /\ Cardinality(refs') <= MaxChain

SpecChain == Init /\ [][NextChain]_vars

----------------------------------------------------------------------------
(* Two builder chains on the one facade, their calls interleaved. Beside   *)
(* the store they share, each chain's calls are made on a store of its own *)
(* (alone), which the other chain never touches.                           *)

Chains == {1, 2}

EmptyStore == [heap |-> <<>>, arrays |-> <<>>]

InitChains ==
    /\ heap = <<>>
    /\ arrays = <<>>
    /\ refs = {}
    /\ chain = <<>>
    /\ last = NoCall
    /\ owner = <<>>
    /\ alone = [k \in Chains |->
                  [st |-> EmptyStore, at |-> <<>>, started |-> FALSE,
                   error |-> NoError, got |-> NoError]]

\* chain k's call ended as r in the shared store and as p in its own; at
\* maps each fragment k holds to the same fragment of its own store
StepOf(k, r, p, history) ==
    /\ Step(r, history)
    /\ owner' = IF r.error = NoError
                THEN [x \in refs \cup {r.ret} |->
                        IF x = r.ret THEN k ELSE owner[x]]
                ELSE owner
    /\ alone' = [alone EXCEPT ![k] =
                  [st |-> p.st,
                   at |-> IF r.error = NoError
                          THEN [x \in DOMAIN alone[k].at \cup {r.ret} |->
                                  IF x = r.ret THEN p.ret ELSE alone[k].at[x]]
                          ELSE alone[k].at,
                   started |-> TRUE,
                   error |-> p.error,
                   got |-> r.error]]

\* chain k starts: cssSelectorBuilder.<name>(value)
ChainsStart(k, name, value) ==
    /\ ~alone[k].started
    /\ StepOf(k, builderCall(Store, name, value),
              builderCall(alone[k].st, name, value), << <<name, value>> >>)

\* chain k goes on: this.<name>(value) on a fragment returned to it
ChainsCall(k, this, name, value) ==
    /\ this \in refs
    /\ owner[this] = k
    /\ StepOf(k, Invoke(Store, this, name, value),
              Invoke(alone[k].st, alone[k].at[this], name, value),
              Append(chain[this], <<name, value>>))

NextChains ==
    \/ \E k \in Chains, name \in ChainsCategories, value \in ChainsValues :
           ChainsStart(k, name, value) /\ Len(heap') <= MaxShared
    \/ \E k \in Chains, this \in refs, name \in ChainsCategories,
          value \in ChainsValues :
           ChainsCall(k, this, name, value) /\ Len(heap') <= MaxShared

SpecChains == InitChains /\ [][NextChains]_vars

----------------------------------------------------------------------------
(* Properties of the fragment accumulator, checked under Spec *)

\* a simple fragment (not a combined node)
Simple(st, x) == ~st.heap[x].isCombined

\* the call of category name occurs in the history and a call of another
\* category occurs after it
CalledThenOther(history, name) ==
    \E i, j \in 1..Len(history) :
        i < j /\ history[i][1] = name /\ history[j][1] # name

\* C2: on a simple fragment whose lastCategoryRank is r, a call of a category
\* of rank less than r fails with the ordering error, returns no fragment and
\* changes nothing.
C2_LowerRankFailsWithOrderMessage ==
    \A this \in refs, name \in Categories, value \in Values :
        (Simple(Store, this) /\ Rank(name) < heap[this].order.num) =>
            LET r == Invoke(Store, this, name, value)
            IN  r.error = OrderMessage /\ r.ret = NoRef /\ r.st = Store

\* facade.c1(v1).c2(v2) with rank(c1) > rank(c2) has just failed with the
\* ordering error: the one fragment held was built by one facade call
C2_Witness ==
    /\ last.error = OrderMessage
    /\ last.ret = NoRef
    /\ \E this \in refs :
          /\ refs = {this}
          /\ Len(chain[this]) = 1
          /\ Rank(chain[this][1][1]) > 1

\* C3: for c in {element, id, pseudoElement}, c(v2) called directly on the
\* fragment that c(v1) has just returned fails with the uniqueness error.
C3_RepeatedSingleFails ==
    \A name \in Singles, value \in Values :
        (/\ last.error = NoError
         /\ last.ret \in refs
         /\ chain[last.ret][Len(chain[last.ret])][1] = name) =>
            Invoke(Store, last.ret, name, value).error = SingleMessage

\* C4 as claimed: once element, id or pseudoElement is set and another
\* category has been called after it, the same category called again fails
\* with the uniqueness error.
C4_RepeatedLaterFailsWithSingleMessage ==
    \A this \in refs, name \in Singles, value \in Values :
        (Simple(Store, this) /\ CalledThenOther(chain[this], name)) =>
            Invoke(Store, this, name, value).error = SingleMessage

\* C4 as amended: once element, id or pseudoElement is set and another
\* category has been called after it, the same category called again fails
\* with the ordering error and returns no fragment.
C4_RepeatedLaterFailsWithOrderMessage ==
    \A this \in refs, name \in Singles, value \in Values :
        (Simple(Store, this) /\ CalledThenOther(chain[this], name)) =>
            LET r == Invoke(Store, this, name, value)
            IN  r.error = OrderMessage /\ r.ret = NoRef

\* element(v1).id(v2) is the one fragment besides element(v1), and the last
\* call, made on one of the two, has failed with the ordering error
C4_Witness ==
    /\ last.error = OrderMessage
    /\ Cardinality(refs) = 2
    /\ \E this \in refs :
          /\ Len(chain[this]) = 2
          /\ chain[this][1][1] = "element"
          /\ chain[this][2][1] = "id"

\* C5: a successful category call leaves the fragment it is called on as it
\* was, lastCategoryRank included.
C5_SuccessfulCallLeavesReceiver ==
    \A this \in refs, name \in Categories, value \in Values :
        Simple(Store, this) =>
            LET r == Invoke(Store, this, name, value)
            IN  r.error = NoError => r.st.heap[this] = heap[this]

\* the arrays a simple fragment refers to
ArraysOf(st, x) ==
    {st.heap[x].classValues, st.heap[x].attrValues,
     st.heap[x].pseudoClassValues}

\* C6: in every step, whatever call it makes on whichever Selector held, the
\* text of every simple fragment held stays what it was, and afterwards no
\* two simple fragments held share an array.
C6_FragmentKeepsTextAndArrays ==
    [][/\ \A a \in refs :
              Simple(Store, a) => stringify(Store', a) = stringify(Store, a)
       /\ \A a, b \in refs' :
              (a # b /\ Simple(Store', a) /\ Simple(Store', b)) =>
                  ArraysOf(Store', a) \cap ArraysOf(Store', b) = {}]_vars

\* a = class('a') and b = a.class('a') are held: a reads ".a" and b ".a.a"
C6_Witness ==
    \E a, b \in refs :
        /\ chain[a] = << <<"class", "a">> >>
        /\ chain[b] = << <<"class", "a">>, <<"class", "a">> >>
        /\ stringify(Store, a) = ".a"
        /\ stringify(Store, b) = ".a.a"

\* C11: a category call on a simple fragment that fails with the ordering or
\* the uniqueness error returns no fragment and leaves every Selector and every
\* array as it was: the fragment's element, id, classes, attributes,
\* pseudo-classes, pseudo-element and lastCategoryRank are unchanged.
C11_FailedCallLeavesFragment ==
    \A this \in refs, name \in Categories, value \in Values :
        Simple(Store, this) =>
            LET r == Invoke(Store, this, name, value)
            IN  r.error \in {OrderMessage, SingleMessage} =>
                    r.ret = NoRef /\ r.st = Store

\* pseudoElement('a').pseudoElement(v) has just failed with the uniqueness
\* error, after ensureOrder(6) has passed and assigned: the one fragment held
\* still has rank 6 and reads "::a"
C11_Witness ==
    /\ last.error = SingleMessage
    /\ \E this \in refs :
          /\ refs = {this}
          /\ chain[this] = << <<"pseudoElement", "a">> >>
          /\ heap[this].order = Number(6)
          /\ stringify(Store, this) = "::a"

\* the simple fragment x holds a part of category name: the field or the array
\* of the category is not empty
HoldsPart(x, name) ==
    CASE name = "element" -> heap[x].elementValue # String("")
      [] name = "id" -> heap[x].idValue # String("")
      [] name = "class" -> arrays[heap[x].classValues] # <<>>
      [] name = "attr" -> arrays[heap[x].attrValues] # <<>>
      [] name = "pseudoClass" -> arrays[heap[x].pseudoClassValues] # <<>>
      [] name = "pseudoElement" -> heap[x].pseudoElementValue # String("")

\* the lastCategoryRank of the simple fragment x is a rank, and no less than
\* the rank of any part x holds or of any call that built x
RankCoversParts(x) ==
    /\ heap[x].order.type = "number"
    /\ heap[x].order.num \in 0..6
    /\ \A name \in Categories :
          HoldsPart(x, name) => Rank(name) <= heap[x].order.num
    /\ x \in refs =>
          \A i \in 1..Len(chain[x]) : Rank(chain[x][i][1]) <= heap[x].order.num

\* C13: in every state every simple fragment's lastCategoryRank is in 0..6 and
\* at least the rank of every part the fragment holds, and no step, whatever
\* call it makes, decreases the lastCategoryRank of a simple fragment.
C13_RankBoundedCoveringAndMonotonic ==
    /\ [](\A x \in 1..Len(heap) : Simple(Store, x) => RankCoversParts(x))
    /\ [][\A x \in 1..Len(heap) :
              Simple(Store, x) =>
                  heap'[x].order.num >= heap[x].order.num]_vars

\* a = element('a') is held with its one part of rank 1; a.pseudoElement(v)
\* has raised a's lastCategoryRank to 6 and a later call on a has failed with
\* the ordering error
C13_Witness ==
    /\ last.error = OrderMessage
    /\ \E x \in refs :
          /\ chain[x] = << <<"element", "a">> >>
          /\ HoldsPart(x, "element")
          /\ heap[x].order = Number(6)

----------------------------------------------------------------------------
(* Properties of combine, checked under SpecTree *)

\* C7: for every symbol text, combine(left, symbol, right) is a combined node
\* whose text is left's text, a space, the symbol, a space, right's text.
C7_CombinePassesSymbolThrough ==
    \A selector1 \in refs, combinator \in Symbols, selector2 \in refs :
        LET r == combine(Store, selector1, combinator, selector2)
        IN  /\ r.error = NoError
            /\ r.st.heap[r.ret].isCombined
            /\ stringify(r.st, r.ret)
                  = stringify(Store, selector1) \o " " \o combinator \o " "
                        \o stringify(Store, selector2)

\* the leaves' texts and the symbols of a tree, from left to right
RECURSIVE InOrder(_)
InOrder(x) ==
    IF heap[x].isCombined
    THEN InOrder(heap[x].selector1) \o <<heap[x].combinator.str>>
             \o InOrder(heap[x].selector2)
    ELSE <<stringify(Store, x)>>

\* the texts of a sequence with one space between neighbours
RECURSIVE Spaced(_)
Spaced(texts) ==
    IF Len(texts) = 1 THEN texts[1]
    ELSE texts[1] \o " " \o Spaced(Tail(texts))

\* every symbol of the tree is one of the four combinators
RECURSIVE OverCombinators(_)
OverCombinators(x) ==
    heap[x].isCombined =>
        /\ heap[x].combinator.str \in Combinators
        /\ OverCombinators(heap[x].selector1)
        /\ OverCombinators(heap[x].selector2)

\* C8: the text of a combinator tree is its in-order flattening, the leaves'
\* texts from left to right with each node's symbol between the texts of its
\* subtrees, one space on each side.
C8_TreeTextIsInOrderFlattening ==
    \A x \in refs :
        OverCombinators(x) => stringify(Store, x) = Spaced(InOrder(x))

\* with a = element('a') and b = combine(a, '>', a), combine(b, '~', b), nested
\* on the left and on the right, is held and reads "a > a ~ a > a"
C8_Witness ==
    \E x \in refs :
        /\ heap[x].isCombined
        /\ heap[heap[x].selector1].isCombined
        /\ heap[heap[x].selector2].isCombined
        /\ heap[x].combinator.str = "~"
        /\ heap[heap[x].selector1].combinator.str = ">"
        /\ stringify(Store, x) = "a > a ~ a > a"

\* C12: in every step, whatever call it makes (on a combined node itself, on
\* one of its children, on a fragment derived from a child, or through the
\* facade), every combined node keeps its left child, its symbol, its right
\* child and its text. (A category call on the node does assign the node's
\* order field before it fails; none of the four depends on that field.)
C12_CombinedNodeKeepsChildrenAndText ==
    [][\A x \in 1..Len(heap) :
          heap[x].isCombined =>
              /\ heap'[x].isCombined
              /\ heap'[x].selector1 = heap[x].selector1
              /\ heap'[x].combinator = heap[x].combinator
              /\ heap'[x].selector2 = heap[x].selector2
              /\ stringify(Store', x) = stringify(Store, x)]_vars

\* with a = element('a'), a category call on combine(a, '>', a) itself has
\* just failed after ensureOrder assigned the node's order field: the node
\* still has a on both sides and reads "a > a"
C12_Witness ==
    /\ last.error = TypeErrorMessage
    /\ \E x \in refs :
          /\ heap[x].isCombined
          /\ heap[x].order.type = "number"
          /\ heap[x].selector1 = heap[x].selector2
          /\ chain[heap[x].selector1] = << <<"element", "a">> >>
          /\ heap[x].combinator = String(">")
          /\ stringify(Store, x) = "a > a"

\* C9: a category call on any Selector held, simple or combined, returns a
\* new fragment or fails with the ordering or the uniqueness error.
C9_CallsFailOnlyAsDocumented ==
    \A this \in refs, name \in Categories, value \in TreeValues :
        LET r == Invoke(Store, this, name, value)
        IN  \/ /\ r.error = NoError
               /\ r.ret = Len(heap) + 1
               /\ Simple(r.st, r.ret)
            \/ r.error \in {OrderMessage, SingleMessage}

----------------------------------------------------------------------------
(* Properties of one chained expression, checked under SpecChain *)

\* one part as the task writes it: v, #v, .v, [v], :v, ::v
Decorated(name, value) ==
    CASE name = "element" -> value
      [] name = "id" -> "#" \o value
      [] name = "class" -> "." \o value
      [] name = "attr" -> "[" \o value \o "]"
      [] name = "pseudoClass" -> ":" \o value
      [] name = "pseudoElement" -> "::" \o value

\* the decorated parts of the calls of a history, in call order
RECURSIVE PartsInCallOrder(_)
PartsInCallOrder(history) ==
    IF history = <<>> THEN ""
    ELSE Decorated(Head(history)[1], Head(history)[2])
             \o PartsInCallOrder(Tail(history))

\* category calls of non-decreasing rank with element, id and pseudoElement
\* at most once each
ValidChain(history) ==
    /\ \A i \in 1..Len(history) : history[i][1] \in Categories
    /\ \A i, j \in 1..Len(history) :
          i < j => /\ Rank(history[i][1]) <= Rank(history[j][1])
                   /\ history[i][1] = history[j][1] =>
                          history[i][1] \notin Singles

\* C1: in a chain of category calls started by a facade call and continued on
\* each returned fragment, of non-decreasing rank and with element, id and
\* pseudoElement at most once, no call fails and the text of the fragment is
\* the decorated parts in call order with no separators.
C1_ValidChainConcatenatesParts ==
    /\ heap = <<>> =>
          \A name \in Categories, value \in Values :
              builderCall(Store, name, value).error = NoError
    /\ last.ret # NoRef =>
          /\ ValidChain(chain[last.ret]) =>
                 stringify(Store, last.ret) = PartsInCallOrder(chain[last.ret])
          /\ \A name \in Categories, value \in Values :
                 ValidChain(Append(chain[last.ret], <<name, value>>)) =>
                     Invoke(Store, last.ret, name, value).error = NoError

\* element('a').id('a').class('a').class('a').attr('a').pseudoClass('a')
\* .pseudoElement('a') has returned, and reads "a#a.a.a[a]:a::a"
C1_Witness ==
    /\ last.error = NoError
    /\ last.ret \in refs
    /\ chain[last.ret] =
          << <<"element", "a">>, <<"id", "a">>, <<"class", "a">>,
             <<"class", "a">>, <<"attr", "a">>, <<"pseudoClass", "a">>,
             <<"pseudoElement", "a">> >>
    /\ stringify(Store, last.ret) = "a#a.a.a[a]:a::a"

----------------------------------------------------------------------------
(* Properties of two interleaved chains, checked under SpecChains *)

\* the fragment x of store s and the fragment y of store t hold the same parts
\* and the same rank
SameFragment(s, x, t, y) ==
    /\ s.heap[x].isCombined = t.heap[y].isCombined
    /\ s.heap[x].elementValue = t.heap[y].elementValue
    /\ s.heap[x].idValue = t.heap[y].idValue
    /\ s.arrays[s.heap[x].classValues] = t.arrays[t.heap[y].classValues]
    /\ s.arrays[s.heap[x].attrValues] = t.arrays[t.heap[y].attrValues]
    /\ s.arrays[s.heap[x].pseudoClassValues]
          = t.arrays[t.heap[y].pseudoClassValues]
    /\ s.heap[x].pseudoElementValue = t.heap[y].pseudoElementValue
    /\ s.heap[x].order = t.heap[y].order
    /\ stringify(s, x) = stringify(t, y)

\* C10: with the calls of two chains interleaved, every call of a chain ends
\* as it does when the chain runs alone: the same error or none, and every
\* fragment the chain holds has the parts, the rank and the text it has in
\* the chain's own run.
C10_ChainsDoNotInterfere ==
    \A k \in Chains :
        /\ alone[k].got = alone[k].error
        /\ \A x \in refs :
              owner[x] = k =>
                  /\ alone[k].at[x] # NoRef
                  /\ SameFragment(Store, x, alone[k].st, alone[k].at[x])

\* both chains have made a call after their first, and a call of one of them
\* has failed after the other chain's calls
C10_Witness ==
    /\ \A k \in Chains : \E x \in refs : owner[x] = k /\ Len(chain[x]) = 2
    /\ last.error # NoError

====
